---- MODULE Spec2Model ----
(***************************************************************************)
(* Model of src/xii/meshing/embedded_mesh.py:                              *)
(*   - EmbeddedMesh.__init__   (extraction of the marked entities)         *)
(*   - build_embedding_map     (geometric search for the parent map)      *)
(* Indices are 0-based as in the source; Python lists are sequences, so    *)
(* the list element with index i is the sequence element i+1.              *)
(***************************************************************************)
EXTENDS Integers, Sequences, FiniteSets, TLC

\* ------------------------------------------------------------------------
\* Bounds of the inputs
\* ------------------------------------------------------------------------
\* largest label a marking function holds at the call, and largest int marker
MaxLabel == 2
\* longest list of markers passed to EmbeddedMesh
MaxMarkers == 2
\* most cells of an emesh passed to build_embedding_map
MaxECells == 2

\* ------------------------------------------------------------------------
\* Generic helpers
\* ------------------------------------------------------------------------
Range(s) == {s[i] : i \in DOMAIN s}

SetMax(S) == CHOOSE x \in S : \A y \in S : y <= x

SetMin(S) == CHOOSE x \in S : \A y \in S : x <= y

\* the elements of a finite set of integers, in increasing order
RECURSIVE SortedSeq(_)
SortedSeq(S) == IF S = {} THEN <<>> ELSE <<SetMin(S)>> \o SortedSeq(S \ {SetMin(S)})

\* all sequences over S of length 0..n
SeqsUpTo(S, n) == UNION {[1..k -> S] : k \in 0..n}

\* ------------------------------------------------------------------------
\* The parent mesh of the extraction: two triangles sharing an edge.
\*   cells 0 = (0,1,2), 1 = (1,2,3); edges 0..4; vertices 0..3
\* ------------------------------------------------------------------------
\* base_mesh.topology().dim()
BaseTDim == 2

\* entity.entities(0): the vertices of entity e of dimension d, ascending
BaseEntityVertices ==
  [d \in 0..BaseTDim |->
     CASE d = 0 -> <<<<0>>, <<1>>, <<2>>, <<3>>>>
       [] d = 1 -> <<<<0, 1>>, <<0, 2>>, <<1, 2>>, <<1, 3>>, <<2, 3>>>>
       [] d = 2 -> <<<<0, 1, 2>>, <<1, 2, 3>>>>]

NumEntities(d) == Len(BaseEntityVertices[d])

Entities(d) == 0..(NumEntities(d) - 1)

EntityVs(d, e) == BaseEntityVertices[d][e + 1]

\* ------------------------------------------------------------------------
\* Markers: integers, or region descriptors (SubDomain, string, lambda)
\* ------------------------------------------------------------------------
IntMarker(n) == [kind |-> "int", val |-> n]

RegionMarker(r) == [kind |-> "region", val |-> r]

\* the vertices lying inside each region a descriptor can describe
RegionVertices == <<{0, 1, 2}>>

\* the values a list of markers is made of (a marker that is no list is wrapped
\* into a list of one element by line 17)
MarkerValues ==
  {IntMarker(n) : n \in 1..MaxLabel} \cup {RegionMarker(r) : r \in DOMAIN RegionVertices}

\* is_number
is_number(m) == m.kind = "int"

\* SubDomain.mark(marking_function, value): entities inside the region get value
Mark(arr, d, r, value) ==
  [e \in DOMAIN arr |->
     IF Range(EntityVs(d, e)) \subseteq RegionVertices[r] THEN value ELSE arr[e]]

\* max(numbers) if numbers else 0
FirstIntMarker(ms) ==
  LET numbers == {ms[i].val : i \in {j \in DOMAIN ms : is_number(ms[j])}}
  IN IF numbers # {} THEN SetMax(numbers) ELSE 0

\* the loop over markers of the marker resolution, from list position i on
RECURSIVE ResolveLoop(_, _, _, _, _, _)
ResolveLoop(ms, i, d, arr, next_int_marker, new_markers) ==
  IF i > Len(ms) THEN [array |-> arr, markers |-> new_markers]
  ELSE IF is_number(ms[i])
       THEN ResolveLoop(ms, i + 1, d, arr, next_int_marker,
                        Append(new_markers, ms[i].val))
       ELSE ResolveLoop(ms, i + 1, d,
                        Mark(arr, d, ms[i].val, next_int_marker + 1),
                        next_int_marker + 1,
                        Append(new_markers, next_int_marker + 1))

\* the marker resolution: the int list and the marking function after it
ResolveMarkers(ms, d, arr) ==
  IF \A i \in DOMAIN ms : is_number(ms[i])
  THEN [array |-> arr, markers |-> [i \in DOMAIN ms |-> ms[i].val]]
  ELSE ResolveLoop(ms, 1, d, arr, FirstIntMarker(ms), <<>>)

\* ------------------------------------------------------------------------
\* Extraction helpers
\* ------------------------------------------------------------------------
\* df.SubsetIterator(marking_function, marker): entities labelled marker, ascending
SubsetIterator(arr, marker) == SortedSeq({e \in DOMAIN arr : arr[e] = marker})

\* the (marker, entity) pairs in the order the two nested loops visit them
RECURSIVE Visits(_, _, _)
Visits(arr, ms, i) ==
  IF i > Len(ms) THEN <<>>
  ELSE LET es == SubsetIterator(arr, ms[i])
       IN [k \in 1..Len(es) |-> [marker |-> ms[i], entity |-> es[k]]]
          \o Visits(arr, ms, i + 1)

\* new_vertices.index(v): the 0-based position of v in the registry, -1 if absent
IndexOf(reg, v) ==
  IF \E i \in DOMAIN reg : reg[i] = v
  THEN SetMin({i \in DOMAIN reg : reg[i] = v}) - 1
  ELSE -1

\* as VertexLookup, but a vertex already in the registry is registered again
RECURSIVE VertexLookupNoReuse(_, _, _, _)
VertexLookupNoReuse(vs, k, reg, cell) ==
  IF k > Len(vs) THEN [new_vertices |-> reg, cell |-> cell]
  ELSE VertexLookupNoReuse(vs, k + 1, Append(reg, vs[k]), Append(cell, Len(reg)))

\* the vertex lookup loop of one entity: registry and new cell after vertices k..
RECURSIVE VertexLookup(_, _, _, _)
VertexLookup(vs, k, reg, cell) ==
  IF k > Len(vs) THEN [new_vertices |-> reg, cell |-> cell]
  ELSE LET local == IndexOf(reg, vs[k])
       IN IF local >= 0
          THEN VertexLookup(vs, k + 1, reg, Append(cell, local))
          ELSE VertexLookup(vs, k + 1, Append(reg, vs[k]), Append(cell, Len(reg)))

\* as GeneralColors, but the single-marker shortcut is taken for any list
GeneralColorsSetAll(ms, colors, ncells) == [j \in 0..(ncells - 1) |-> ms[1]]

\* the inherited marking function of the general case
GeneralColors(ms, colors, ncells) ==
  IF Len(ms) > 1
  THEN [j \in 0..(ncells - 1) |->
          IF \E m \in DOMAIN colors : j \in Range(colors[m])
          THEN CHOOSE m \in DOMAIN colors : j \in Range(colors[m])
          ELSE 0]
  ELSE [j \in 0..(ncells - 1) |-> ms[1]]

\* the volumetric case: the cells SubMesh keeps, and the embedded mesh data
MarkedCells(arr, ms) == {c \in DOMAIN arr : \E i \in DOMAIN ms : arr[c] = ms[i]}

\* color_cells: marker -> the old cells of that color
ColorCells(arr, ms) == [m \in Range(ms) |-> {c \in DOMAIN arr : arr[c] = m}]

VolumetricColors(arr, ms, cell_indices) ==
  IF Len(ms) > 1
  THEN [j \in 0..(Len(cell_indices) - 1) |->
          LET old_cell == cell_indices[j + 1]
              color_cells == ColorCells(arr, ms)
          IN IF \E m \in DOMAIN color_cells : old_cell \in color_cells[m]
             THEN CHOOSE m \in DOMAIN color_cells : old_cell \in color_cells[m]
             ELSE 0]
  ELSE [j \in 0..(Len(cell_indices) - 1) |-> ms[1]]

\* ------------------------------------------------------------------------
\* The parent mesh of build_embedding_map: two tetrahedra sharing a facet.
\*   vertices 0..4, cells 0 = (0,1,2,3), 1 = (0,1,2,4)
\* ------------------------------------------------------------------------
\* mesh.topology().dim()
MeshTDim == 3

\* mesh.id()
MeshId == 7

\* mesh.coordinates()
mesh_x == <<<<0, 0, 0>>, <<4, 0, 0>>, <<0, 4, 0>>, <<0, 0, 4>>, <<0, 0, -4>>>>

\* c2v = mesh.topology()(tdim, 0)
MeshCells == <<<<0, 1, 2, 3>>, <<0, 1, 2, 4>>>>

\* e2v = mesh.topology()(edim, 0), for edim = 1 (edges) and edim = 2 (facets)
MeshEntities ==
  [e \in 1..2 |->
     IF e = 1
     THEN <<<<0, 1>>, <<0, 2>>, <<0, 3>>, <<0, 4>>, <<1, 2>>, <<1, 3>>, <<1, 4>>,
            <<2, 3>>, <<2, 4>>>>
     ELSE <<<<0, 1, 2>>, <<0, 1, 3>>, <<0, 1, 4>>, <<0, 2, 3>>, <<0, 2, 4>>,
            <<1, 2, 3>>, <<1, 2, 4>>>>]

c2v(mcell) == MeshCells[mcell + 1]

e2v(e, entity) == MeshEntities[e][entity + 1]

\* mesh.init(tdim, edim): the entities of dimension e of each cell
CellEntities ==
  [e \in 1..2 |->
     [mcell \in 0..(Len(MeshCells) - 1) |->
        {entity \in 0..(Len(MeshEntities[e]) - 1) :
           Range(e2v(e, entity)) \subseteq Range(c2v(mcell))}]]

\* c2e = mesh.topology()(tdim, edim)
c2e(e, mcell) == CellEntities[e][mcell]

\* the locations an emesh vertex can have: the parent vertices 0, 1, 3 and 4, a
\* point inside cell 0 and a point outside the parent mesh
EPoints ==
  {<<0, 0, 0>>, <<4, 0, 0>>, <<0, 0, 4>>, <<0, 0, -4>>, <<1, 1, 1>>, <<4, 4, 4>>}

\* ------------------------------------------------------------------------
\* Geometry on integer coordinates
\* ------------------------------------------------------------------------
Sub(p, q) == <<p[1] - q[1], p[2] - q[2], p[3] - q[3]>>

\* np.linalg.norm(p - q), squared
Dist2(p, q) ==
  LET w == Sub(p, q) IN w[1] * w[1] + w[2] * w[2] + w[3] * w[3]

Det3(u, v, w) ==
  u[1] * (v[2] * w[3] - v[3] * w[2])
  - u[2] * (v[1] * w[3] - v[3] * w[1])
  + u[3] * (v[1] * w[2] - v[2] * w[1])

Orient(a, b, c, d) == Det3(Sub(b, a), Sub(c, a), Sub(d, a))

\* the closed tetrahedron mcell contains the point x
Collides(mcell, x) ==
  LET a == mesh_x[c2v(mcell)[1] + 1]
      b == mesh_x[c2v(mcell)[2] + 1]
      c == mesh_x[c2v(mcell)[3] + 1]
      d == mesh_x[c2v(mcell)[4] + 1]
      D == Orient(a, b, c, d)
  IN /\ Orient(x, b, c, d) * D >= 0
     /\ Orient(a, x, c, d) * D >= 0
     /\ Orient(a, b, x, d) * D >= 0
     /\ Orient(a, b, c, x) * D >= 0

\* tree = mesh.bounding_box_tree(): the parent cells containing each location
BoundingBoxTree ==
  [x \in EPoints |-> SortedSeq({mcell \in 0..(Len(MeshCells) - 1) : Collides(mcell, x)})]

\* tree.compute_entity_collisions(Point(x)); the cells are listed in ascending
\* order: at every location of EPoints all colliding cells have the same nearest
\* vertex, so the choice of mcells[0] does not depend on the order
compute_entity_collisions(x) == BoundingBoxTree[x]

\* min(mcell_vertices, key = distance to x): the first of the nearest vertices
NearestVertex(mcell_vertices, x) ==
  LET best == SetMin({k \in DOMAIN mcell_vertices :
                       \A j \in DOMAIN mcell_vertices :
                         Dist2(x, mesh_x[mcell_vertices[k] + 1])
                           <= Dist2(x, mesh_x[mcell_vertices[j] + 1])})
  IN mcell_vertices[best]

\* max(emesh_x.max(axis=0) - emesh_x.min(axis=0)), squared
Scale2(ex) ==
  LET ext(a) == SetMax({ex[i][a] : i \in DOMAIN ex}) - SetMin({ex[i][a] : i \in DOMAIN ex})
      s == SetMax({ext(a) : a \in 1..3})
  IN s * s

\* as ErrorBelowTol, but without the assertion on the error
ErrorUnchecked(d2, scale2, t) == TRUE

\* error < tol, with error = norm / scale and tol = num / den; a zero scale makes
\* error inf or nan, and the comparison false
ErrorBelowTol(d2, scale2, t) ==
  scale2 > 0 /\ d2 * t.den * t.den < t.num * t.num * scale2

\* ------------------------------------------------------------------------
\* The inputs of build_embedding_map
\* ------------------------------------------------------------------------
\* [None]
None == -1

\* tol: 1E-14 cannot be told from 1/100 on these integer coordinates (an error is 0
\* or at least 1/8); 1/2 is a loose tolerance a caller passes
Tols == {[num |-> 1, den |-> 100], [num |-> 1, den |-> 2]}

\* cell.entities(0) of the cells of emesh, a strip of nc simplices of dimension e:
\* cell j has the vertices j .. j + e, and shares e of them with cell j + 1
StripCells(nc, e) == [j \in 1..nc |-> [k \in 1..(e + 1) |-> j - 1 + k - 1]]

\* hasattr(emesh, 'parent_id') is false: None; else the id of this or another mesh
ParentIds == {None, MeshId, MeshId + 1}

\* emesh.entity_map(0).array(), emesh.entity_map(edim).array()
CarriedMap(nv, nc) ==
  [vertex |-> [i \in 1..nv |-> i - 1], cell |-> [j \in 1..nc |-> j - 1]]

\* ------------------------------------------------------------------------
\* The search of build_embedding_map
\* ------------------------------------------------------------------------
\* as ShortcutTaken, but the parent of emesh is not compared with mesh
ShortcutAnyParent(has_map, pid) == has_map

\* hasattr(emesh, 'entity_map') and hasattr(emesh, 'parent_id') and
\* emesh.parent_id == mesh.id()
ShortcutTaken(has_map, pid) == has_map /\ pid # None /\ pid = MeshId

\* as VertexSet, but the entities are not restricted to those with the vertex
VertexSetUnfiltered(e, the_vertex, mcells) ==
  UNION {c2e(e, mcells[i]) : i \in DOMAIN mcells}

\* the entities of the colliding cells that contain the resolved vertex
VertexSet(e, the_vertex, mcells) ==
  {entity \in UNION {c2e(e, mcells[i]) : i \in DOMAIN mcells} :
     the_vertex \in Range(e2v(e, entity))}

\* if not the_entity: update, else: intersection_update
UpdateEntity(the_entity, vertex_set) ==
  IF the_entity = {} THEN vertex_set ELSE the_entity \cap vertex_set

\* cell_colors = defaultdict(list)
NoColors == [m \in 0..(MaxLabel + MaxMarkers) |-> <<>>]

\* as EntityUnique, but only an empty set of candidates is refused
EntityNonEmpty(the_entity) == Cardinality(the_entity) >= 1

\* assert len(the_entity) == 1
EntityUnique(the_entity) == Cardinality(the_entity) = 1

\* lines 255-269: the parent vertex and the colliding cells of an emesh vertex,
\* looked up when the vertex was resolved before
Resolution(vertex, ex, scale2, t, vmap, cwv) ==
  IF vmap[vertex + 1] # None
  THEN [error |-> "none", the_vertex |-> vmap[vertex + 1], mcells |-> cwv[vertex + 1]]
  ELSE
    LET vertex_x == ex[vertex + 1]
        mcells == compute_entity_collisions(vertex_x)
    IN IF mcells = <<>>
       THEN [error |-> "IndexError", the_vertex |-> None, mcells |-> mcells]
       ELSE
         LET the_vertex == NearestVertex(c2v(mcells[1]), vertex_x)
         IN IF ~ErrorBelowTol(Dist2(vertex_x, mesh_x[the_vertex + 1]), scale2, t)
            THEN [error |-> "HangingNode", the_vertex |-> None, mcells |-> mcells]
            ELSE [error |-> "none", the_vertex |-> the_vertex, mcells |-> mcells]

\* ------------------------------------------------------------------------
\* State
\* ------------------------------------------------------------------------
VARIABLES
  pc,               \* position in EmbeddedMesh.__init__
  tdim,             \* marking_function.dim()
  markers_arg,      \* the markers argument
  array_at_call,    \* marking_function.array() when the constructor was called
  array,            \* marking_function.array()
  markers,          \* the int list the loops run over
  visited,          \* number of (marker, entity) pairs the loops have processed
  new_vertices,     \* the registry: new -> old vertex
  new_cells,        \* cells in the embedded numbering
  cell_map,         \* new cell -> parent entity
  cell_colors,      \* marker -> new cells
  parent_entity_map, \* self.parent_entity_map[mesh_key], or <<>> before it is set
  marking_function, \* self.marking_function.array(), or <<>> before it is set
  epc,              \* position in build_embedding_map
  edim,             \* emesh.topology().dim()
  emesh_x,          \* emesh.coordinates()
  ecells,           \* cell.entities(0) of the cells of emesh
  tol,              \* the tol argument, a fraction
  has_entity_map,   \* hasattr(emesh, 'entity_map')
  parent_id,        \* emesh.parent_id, None without the attribute
  scale2,           \* scale, squared; 0 before it is computed
  vertex_map,       \* entity_map[0]
  cells_with_vertex, \* emesh vertex -> the colliding parent cells
  entity_map,       \* entity_map[edim]
  cell_index,       \* number of emesh cells the search has finished
  vertex_pos,       \* number of vertices of the current cell the loop has done
  the_entity,       \* the candidate entities of the current cell
  error,            \* the exception raised, "none" without one
  error_vertex,     \* the emesh vertex whose resolution raised, else None
  via,              \* how the map was obtained: "extract" or "search"
  result            \* the returned map, <<>> before the return

exvars == <<pc, tdim, markers_arg, array_at_call, array, markers, visited,
            new_vertices, new_cells, cell_map, cell_colors, parent_entity_map,
            marking_function>>

emvars == <<epc, edim, emesh_x, ecells, tol, has_entity_map, parent_id, scale2,
            vertex_map, cells_with_vertex, entity_map, cell_index, vertex_pos, the_entity, error,
            error_vertex, via, result>>

vars == <<exvars, emvars>>

\* ------------------------------------------------------------------------
\* The call of build_embedding_map(emesh, mesh, tol): its inputs
\* ------------------------------------------------------------------------
EmInit ==
  /\ epc = "call"
  /\ edim \in 1..2
  /\ \E nc \in 1..MaxECells :
       /\ ecells = StripCells(nc, edim)
       /\ emesh_x \in [1..(nc + edim) -> EPoints]
  /\ tol \in Tols
  /\ has_entity_map \in BOOLEAN
  /\ parent_id \in ParentIds
  /\ scale2 = 0
  /\ vertex_map = <<>>
  /\ cells_with_vertex = <<>>
  /\ entity_map = <<>>
  /\ cell_index = 0
  /\ vertex_pos = 0
  /\ the_entity = {}
  /\ error = "none"
  /\ error_vertex = None
  /\ via = "none"
  /\ result = <<>>
  \* no call of EmbeddedMesh
  /\ pc = "idle"
  /\ tdim = 0
  /\ markers_arg = <<>>
  /\ array = <<>>
  /\ array_at_call = <<>>
  /\ markers = <<>>
  /\ visited = 0
  /\ new_vertices = <<>>
  /\ new_cells = <<>>
  /\ cell_map = <<>>
  /\ cell_colors = NoColors
  /\ parent_entity_map = <<>>
  /\ marking_function = <<>>

\* ------------------------------------------------------------------------
\* EmbeddedMesh.__init__(marking_function, markers)
\* ------------------------------------------------------------------------
ExInit ==
  /\ pc = "call"
  /\ tdim \in 0..BaseTDim
  /\ markers_arg \in SeqsUpTo(MarkerValues, MaxMarkers)
  /\ array \in [Entities(tdim) -> 0..MaxLabel]
  /\ array_at_call = array
  /\ markers = <<>>
  /\ visited = 0
  /\ new_vertices = <<>>
  /\ new_cells = <<>>
  /\ cell_map = <<>>
  /\ cell_colors = NoColors
  /\ parent_entity_map = <<>>
  /\ marking_function = <<>>
  \* no call of build_embedding_map
  /\ epc = "idle"
  /\ edim = 0
  /\ emesh_x = <<>>
  /\ ecells = <<>>
  /\ tol = [num |-> 0, den |-> 1]
  /\ has_entity_map = FALSE
  /\ parent_id = None
  /\ scale2 = 0
  /\ vertex_map = <<>>
  /\ cells_with_vertex = <<>>
  /\ entity_map = <<>>
  /\ cell_index = 0
  /\ vertex_pos = 0
  /\ the_entity = {}
  /\ error = "none"
  /\ error_vertex = None
  /\ via = "none"
  /\ result = <<>>

\* lines 17-46: the markers become a list of ints, descriptors paint the function
Resolve ==
  /\ pc = "call"
  /\ LET r == ResolveMarkers(markers_arg, tdim, array)
     IN /\ array' = r.array
        /\ markers' = r.markers
  /\ pc' = "resolved"
  /\ UNCHANGED <<tdim, markers_arg, array_at_call, visited, new_vertices, new_cells,
                 cell_map, cell_colors, parent_entity_map, marking_function>>
  /\ UNCHANGED emvars

\* lines 48-62, 98-107: the assertions, and the choice of the case
Dispatch ==
  /\ pc = "resolved"
  /\ pc' = IF tdim <= 0 \/ markers = <<>> THEN "failed"
           ELSE IF BaseTDim = tdim THEN "submesh" ELSE "loop"
  /\ UNCHANGED <<tdim, markers_arg, array_at_call, array, markers, visited,
                 new_vertices, new_cells, cell_map, cell_colors, parent_entity_map,
                 marking_function>>
  /\ UNCHANGED emvars

\* lines 62-95: marking by cell function, through SubMesh
Volumetric ==
  /\ pc = "submesh"
  /\ LET cells == SortedSeq(MarkedCells(array, markers))
         verts == SortedSeq(UNION {Range(EntityVs(tdim, c)) : c \in Range(cells)})
     IN /\ parent_entity_map' = [vertex |-> verts, cell |-> cells]
        /\ marking_function' = VolumetricColors(array, markers, cells)
  /\ pc' = "done"
  /\ UNCHANGED <<tdim, markers_arg, array_at_call, array, markers, visited,
                 new_vertices, new_cells, cell_map, cell_colors>>
  /\ UNCHANGED emvars

\* lines 109-129: one entity of the subset of one marker
ProcessEntity ==
  /\ pc = "loop"
  /\ LET todo == Visits(array, markers, 1)
     IN /\ visited < Len(todo)
        /\ LET marker == todo[visited + 1].marker
               entity == todo[visited + 1].entity
               r == VertexLookup(EntityVs(tdim, entity), 1, new_vertices, <<>>)
           IN /\ new_vertices' = r.new_vertices
              /\ new_cells' = Append(new_cells, r.cell)
              /\ cell_map' = Append(cell_map, entity)
              /\ cell_colors' =
                   [cell_colors EXCEPT ![marker] = Append(@, Len(new_cells))]
  /\ visited' = visited + 1
  /\ UNCHANGED <<pc, tdim, markers_arg, array_at_call, array, markers,
                 parent_entity_map, marking_function>>
  /\ UNCHANGED emvars

\* lines 130-152: the mesh, the entity map and the inherited marking function
Build ==
  /\ pc = "loop"
  /\ visited = Len(Visits(array, markers, 1))
  /\ parent_entity_map' = [vertex |-> new_vertices, cell |-> cell_map]
  /\ marking_function' = GeneralColors(markers, cell_colors, Len(new_cells))
  /\ pc' = "done"
  /\ UNCHANGED <<tdim, markers_arg, array_at_call, array, markers, visited,
                 new_vertices, new_cells, cell_map, cell_colors>>
  /\ UNCHANGED emvars

ExNext == Resolve \/ Dispatch \/ Volumetric \/ ProcessEntity \/ Build

SpecExtract == ExInit /\ [][ExNext]_vars

\* ------------------------------------------------------------------------
\* build_embedding_map(emesh, mesh, tol)
\* ------------------------------------------------------------------------
\* lines 215-250: the shortcut by extraction, or the set up of the search
Call ==
  /\ epc = "call"
  /\ IF edim >= MeshTDim
     THEN /\ epc' = "failed"
          /\ error' = "AssertionError"
          /\ UNCHANGED <<scale2, vertex_map, cells_with_vertex, entity_map, via, result>>
     ELSE IF ShortcutTaken(has_entity_map, parent_id)
     THEN /\ epc' = "returned"
          /\ via' = "extract"
          /\ result' = CarriedMap(Len(emesh_x), Len(ecells))
          /\ UNCHANGED <<scale2, vertex_map, cells_with_vertex, entity_map, error>>
     ELSE /\ epc' = "search"
          /\ scale2' = Scale2(emesh_x)
          /\ vertex_map' = [i \in 1..Len(emesh_x) |-> None]
          /\ entity_map' = [j \in 1..Len(ecells) |-> None]
          /\ cells_with_vertex' = [i \in 1..Len(emesh_x) |-> <<>>]
          /\ UNCHANGED <<error, via, result>>
  /\ UNCHANGED <<edim, emesh_x, ecells, tol, has_entity_map, parent_id, cell_index,
                 vertex_pos, the_entity, error_vertex>>
  /\ UNCHANGED exvars

\* lines 254-280: one vertex of the current cell of emesh
ResolveVertex ==
  /\ epc = "search"
  /\ cell_index < Len(ecells)
  /\ vertex_pos < Len(ecells[cell_index + 1])
  /\ LET vertex == ecells[cell_index + 1][vertex_pos + 1]
         r == Resolution(vertex, emesh_x, scale2, tol, vertex_map,
                         cells_with_vertex)
     IN IF r.error # "none"
        THEN /\ epc' = "failed"
             /\ error' = r.error
             /\ error_vertex' = vertex
             /\ UNCHANGED <<vertex_map, cells_with_vertex, vertex_pos, the_entity>>
        ELSE /\ vertex_map' = [vertex_map EXCEPT ![vertex + 1] = r.the_vertex]
             /\ cells_with_vertex' = [cells_with_vertex EXCEPT ![vertex + 1] = r.mcells]
             /\ the_entity' =
                  UpdateEntity(the_entity, VertexSet(edim, r.the_vertex, r.mcells))
             /\ vertex_pos' = vertex_pos + 1
             /\ UNCHANGED <<epc, error, error_vertex>>
  /\ UNCHANGED <<edim, emesh_x, ecells, tol, has_entity_map, parent_id, scale2,
                 entity_map, cell_index, via, result>>
  /\ UNCHANGED exvars

\* lines 281-283, 253: the entity of the cell is the one candidate left
InsertEntity ==
  /\ epc = "search"
  /\ cell_index < Len(ecells)
  /\ vertex_pos = Len(ecells[cell_index + 1])
  /\ IF ~EntityUnique(the_entity)
     THEN /\ epc' = "failed"
          /\ error' = "EntityNotUnique"
          /\ UNCHANGED <<entity_map, cell_index, vertex_pos, the_entity>>
     ELSE /\ entity_map' = [entity_map EXCEPT ![cell_index + 1] =
                              CHOOSE entity \in the_entity : TRUE]
          /\ cell_index' = cell_index + 1
          /\ vertex_pos' = 0
          /\ the_entity' = {}
          /\ UNCHANGED <<epc, error>>
  /\ UNCHANGED <<edim, emesh_x, ecells, tol, has_entity_map, parent_id, scale2,
                 vertex_map, cells_with_vertex, error_vertex, via, result>>
  /\ UNCHANGED exvars

\* lines 285-289: no slot is left unresolved, and the map is returned
Return ==
  /\ epc = "search"
  /\ cell_index = Len(ecells)
  /\ IF None \in Range(vertex_map) \/ None \in Range(entity_map)
     THEN /\ epc' = "failed"
          /\ error' = "Unresolved"
          /\ UNCHANGED <<via, result>>
     ELSE /\ epc' = "returned"
          /\ via' = "search"
          /\ result' = [vertex |-> vertex_map, cell |-> entity_map]
          /\ UNCHANGED error
  /\ UNCHANGED <<edim, emesh_x, ecells, tol, has_entity_map, parent_id, scale2,
                 vertex_map, cells_with_vertex, entity_map, cell_index, vertex_pos,
                 the_entity, error_vertex>>
  /\ UNCHANGED exvars

EmNext == Call \/ ResolveVertex \/ InsertEntity \/ Return

SpecEmbed == EmInit /\ [][EmNext]_vars

\* ------------------------------------------------------------------------
\* Properties of EmbeddedMesh.__init__ (checked under SpecExtract)
\* ------------------------------------------------------------------------
\* every marker of the markers argument is an integer
IntMarkersOnly == \A i \in DOMAIN markers_arg : is_number(markers_arg[i])

Injective(s) == \A i, j \in DOMAIN s : s[i] = s[j] => i = j

RECURSIVE Flatten(_)
Flatten(ss) == IF ss = <<>> THEN <<>> ELSE Head(ss) \o Flatten(Tail(ss))

\* the position at which v first occurs in the sequence s
FirstPos(s, v) == SetMin({p \in DOMAIN s : s[p] = v})

\* C1: in the general case with integer markers, the recorded entity map lists
\* every parent entity whose label is in the marker set, no other entity, and each
\* such entity exactly once.
C1_EntityMapExact ==
  (pc = "done" /\ tdim < BaseTDim /\ IntMarkersOnly) =>
    LET marked == {e \in DOMAIN array : array[e] \in Range(markers)}
        listed == parent_entity_map.cell
    IN /\ Range(listed) = marked
       /\ \A e \in marked : Cardinality({j \in DOMAIN listed : listed[j] = e}) = 1

\* C7: with integer markers, the inherited marking function gives every new cell
\* the label of the parent entity it comes from, in the general and in the
\* volumetric case, and with one marker it is that marker on every cell.
C7_InheritedLabels ==
  (pc = "done" /\ IntMarkersOnly) =>
    /\ DOMAIN marking_function = 0..(Len(parent_entity_map.cell) - 1)
    /\ \A j \in DOMAIN marking_function :
         marking_function[j] = array_at_call[parent_entity_map.cell[j + 1]]
    /\ Len(markers_arg) = 1 =>
         \A j \in DOMAIN marking_function : marking_function[j] = markers_arg[1].val

\* two cells of the general case inherited different labels from several markers
C7_Witness ==
  /\ pc = "done"
  /\ IntMarkersOnly
  /\ tdim < BaseTDim
  /\ Len(markers) > 1
  /\ \E j, k \in DOMAIN marking_function : marking_function[j] # marking_function[k]

\* C8: after the constructor returns or fails, the label array of the marking
\* function the caller passed is the same as before the call.
C8_MarkingFunctionUnchanged ==
  pc \in {"done", "failed"} => array = array_at_call

\* C10: in the general case, after any number of processed entities the registry
\* holds no parent vertex twice, lists the vertices in order of first appearance,
\* and the k-th local index of every new cell is a valid registry index whose
\* entry is the k-th vertex of the originating entity; so the final vertex map is
\* injective and the vertex images of a cell are the vertices of its entity.
C10_Registry ==
  (pc \in {"loop", "done"} /\ tdim < BaseTDim) =>
    LET incident == [j \in DOMAIN cell_map |-> EntityVs(tdim, cell_map[j])]
        flat == Flatten(incident)
    IN /\ Injective(new_vertices)
       /\ Range(new_vertices) = Range(flat)
       /\ \A i, j \in DOMAIN new_vertices :
            i < j => FirstPos(flat, new_vertices[i]) < FirstPos(flat, new_vertices[j])
       /\ Len(new_cells) = Len(cell_map)
       /\ \A j \in DOMAIN new_cells :
            /\ Len(new_cells[j]) = Len(incident[j])
            /\ \A k \in DOMAIN new_cells[j] :
                 /\ new_cells[j][k] \in 0..(Len(new_vertices) - 1)
                 /\ new_vertices[new_cells[j][k] + 1] = incident[j][k]
       /\ pc = "done" =>
            /\ Injective(parent_entity_map.vertex)
            /\ \A j \in DOMAIN new_cells :
                 {parent_entity_map.vertex[i + 1] : i \in Range(new_cells[j])}
                   = Range(EntityVs(tdim, parent_entity_map.cell[j]))

\* the loop has processed several entities and one reused a registered vertex
C10_Witness ==
  /\ pc = "loop"
  /\ Len(new_cells) >= 2
  /\ Len(new_vertices) < Len(Flatten(new_cells))

\* ------------------------------------------------------------------------
\* Properties of build_embedding_map (checked under SpecEmbed)
\* ------------------------------------------------------------------------
\* the map was computed by the search and returned
ReturnedBySearch == epc = "returned" /\ via = "search"

\* coordinatewise sum of the points s[i], i in the set I of indices
RECURSIVE SumPoints(_, _)
SumPoints(s, I) ==
  IF I = {} THEN <<0, 0, 0>>
  ELSE LET i == SetMin(I)
           r == SumPoints(s, I \ {i})
       IN <<s[i][1] + r[1], s[i][2] + r[2], s[i][3] + r[3]>>

\* C2: when the search returns a map, the parent vertex of every emesh vertex is
\* within the tolerance of it: distance / scale < tol.
C2_RoundTrip ==
  ReturnedBySearch =>
    \A v \in DOMAIN emesh_x :
      Dist2(mesh_x[result.vertex[v] + 1], emesh_x[v]) * tol.den * tol.den
        < tol.num * tol.num * Scale2(emesh_x)

\* a returned map holds a vertex that does not lie exactly on its parent vertex
C2_Witness ==
  /\ ReturnedBySearch
  /\ \E v \in DOMAIN emesh_x : mesh_x[result.vertex[v] + 1] # emesh_x[v]

C4_Injective ==
  ReturnedBySearch => Injective(result.vertex) /\ Injective(result.cell)

\* the candidate entities of a resolved emesh vertex
Candidates(v) == VertexSet(edim, vertex_map[v + 1], cells_with_vertex[v + 1])

\* the entities that are candidates of every vertex of the c-th emesh cell
CommonCandidates(c) ==
  {entity \in 0..(Len(MeshEntities[edim]) - 1) :
     \A v \in Range(ecells[c]) : entity \in Candidates(v)}

\* C5: the search goes past a cell only when the intersection of its per-vertex
\* candidate sets holds exactly one entity, which it records; with zero or
\* several entities in it the search fails and returns no map.
C5_FailsUnlessUnique ==
  /\ epc \in {"search", "returned"} =>
       \A c \in 1..cell_index : CommonCandidates(c) = {entity_map[c]}
  /\ epc = "failed" => via = "none" /\ result = <<>>

\* a cell of three vertices fails after the candidates of its first two vertices
\* had nothing in common and the third vertex filled the set again
C5_Witness ==
  /\ epc = "failed"
  /\ error = "EntityNotUnique"
  /\ edim = 2
  /\ LET vs == ecells[cell_index + 1]
     IN Candidates(vs[1]) \cap Candidates(vs[2]) = {}
  /\ the_entity # {}

\* the emesh vertex v is further than the tolerance from every parent vertex
Displaced(v) ==
  \A p \in DOMAIN mesh_x :
    Dist2(emesh_x[v + 1], mesh_x[p]) * tol.den * tol.den > tol.num * tol.num * scale2

\* C6: the resolution of an emesh vertex that is displaced from every parent
\* vertex by more than the tolerance fails with the hanging-node error, inside a
\* parent cell or not.
C6_DisplacedIsHangingNode ==
  (epc = "failed" /\ error_vertex # None /\ Displaced(error_vertex)) =>
    error = "HangingNode"

\* C9: the carried map is returned without a search exactly when emesh has an
\* entity_map and a parent_id equal to mesh.id(); otherwise the map is searched.
C9_ShortcutIff ==
  epc # "call" =>
    IF has_entity_map /\ parent_id = MeshId
    THEN /\ epc = "returned"
         /\ via = "extract"
         /\ result = CarriedMap(Len(emesh_x), Len(ecells))
         /\ vertex_map = <<>> /\ entity_map = <<>> /\ cells_with_vertex = <<>>
    ELSE /\ via # "extract"
         /\ Len(vertex_map) = Len(emesh_x)
         /\ epc = "returned" =>
              via = "search" /\ result = [vertex |-> vertex_map, cell |-> entity_map]

\* emesh has an entity_map and the parent_id of another mesh, and was searched
C9_Witness ==
  /\ ReturnedBySearch
  /\ has_entity_map
  /\ parent_id \notin {None, MeshId}

\* the positions of the markers argument that hold a region descriptor
DescriptorPositions == {i \in DOMAIN markers_arg : ~is_number(markers_arg[i])}

\* the markers argument mixes integers and region descriptors
MixedMarkers ==
  /\ DescriptorPositions # {}
  /\ \E i \in DOMAIN markers_arg : is_number(markers_arg[i])

\* the parent entity e had the label of an integer marker at the call, or lies in
\* a region described in the markers argument
Selected(e) ==
  \/ \E i \in DOMAIN markers_arg :
       is_number(markers_arg[i]) /\ array_at_call[e] = markers_arg[i].val
  \/ \E i \in DescriptorPositions :
       Range(EntityVs(tdim, e)) \subseteq RegionVertices[markers_arg[i].val]

\* C11: with integers and region descriptors mixed, the label given to a
\* descriptor differs from every integer marker, from the label of every other
\* descriptor and from every label the marking function held at the call, so the
\* embedded mesh holds only entities whose original label is an integer marker
\* or that lie in a described region.
C11_FreshDescriptorLabels ==
  (pc = "done" /\ MixedMarkers) =>
    /\ \A i \in DescriptorPositions :
         /\ \A j \in DOMAIN markers_arg :
              is_number(markers_arg[j]) => markers[i] # markers_arg[j].val
         /\ \A j \in DescriptorPositions : j # i => markers[i] # markers[j]
         /\ markers[i] \notin Range(array_at_call)
    /\ \A j \in DOMAIN parent_entity_map.cell : Selected(parent_entity_map.cell[j])

====
